---- MODULE Spec2Model ----
(***************************************************************************)
(* A model of the worker pool of src/src/lib.rs: ThreadPool::new,          *)
(* ThreadPool::execute, Drop for ThreadPool and the worker loop of         *)
(* Worker::new, over an mpsc channel whose receiving half is shared by     *)
(* the workers as Arc<Mutex<Receiver<Message>>>.                           *)
(*                                                                         *)
(* Every worker thread is a small process (pc) whose steps are the shared  *)
(* accesses of the loop body: taking the mutex, the blocking recv made     *)
(* while the guard is alive, the release of the guard at the end of the    *)
(* let statement followed by the match, and the end of the job.  The       *)
(* owner of the pool is a second process (phase): construction, the        *)
(* execute calls, then the two loops of drop.                              *)
(***************************************************************************)
EXTENDS Integers, Sequences, FiniteSets, TLC

\* Largest size handed to ThreadPool::new, and number of execute calls made.
MaxSize == 2
MaxJobs == 3

WorkerIds == 0..(MaxSize - 1)
JobIds == 1..MaxJobs
TermIds == 1..MaxSize

VARIABLES
    phase,        \* position of the owner of the pool
    size,         \* the argument of ThreadPool::new
    workers,      \* ThreadPool.workers: Vec<Worker>
    senderAlive,  \* the Sender half exists (ThreadPool.sender)
    rxRefs,       \* strong count of the Arc around Mutex<Receiver>
    queue,        \* messages in the channel, oldest first
    holder,       \* the worker holding the MutexGuard, or NoHolder
    poisoned,     \* the mutex is poisoned
    pc,           \* position of every worker thread
    msg,          \* the message a worker took from the channel
    calls,        \* number of execute calls made so far
    faulty,       \* accepted jobs that panic when invoked
    results,      \* what every execute call returned
    delivered,    \* per NewJob message, the workers that dequeued it
    termDelivered,\* per Terminate message, the workers that dequeued it
    invocations,  \* per job, the workers that invoked it
    completed,    \* jobs whose invocation returned
    termSent,     \* Terminate messages sent by drop
    joinIdx,      \* position of the second loop of drop
    joined        \* worker ids in the order drop joined them

vars == <<phase, size, workers, senderAlive, rxRefs, queue, holder, poisoned,
          pc, msg, calls, faulty, results, delivered, termDelivered,
          invocations, completed, termSent, joinIdx, joined>>

NoHolder == -1

\* enum Message { NewJob(Job), Terminate }; a job either returns or panics.
NewJob(j, f) == [kind |-> "NewJob", id |-> j, faulty |-> f]
Terminate(k) == [kind |-> "Terminate", id |-> k, faulty |-> FALSE]
NoMsg == [kind |-> "None", id |-> 0, faulty |-> FALSE]

\* struct Worker { id, thread: Option<JoinHandle<()>> }
Worker(i) == [id |-> i, thread |-> "Some"]

\* assert!(size > 0)
AssertSizeMut(n) == n >= 0
AssertSize(n) == n > 0

\* for id in 0..size: the id of the next worker pushed
NextWorkerIdMut == Len(workers) + 1
NextWorkerId == Len(workers)

\* Sender::send: fails only when the Receiver has been dropped
SendOkMut == rxRefs >= size
SendOk == rxRefs > 0

\* execute maps the result of send: Ok(()) or the boxed SendError
ExecuteResult == IF SendOk THEN "Ok" ELSE "Err"

\* Sender::send appends at the tail of the channel
ChanSendMut(q, m) == <<m>> \o q
ChanSend(q, m) == Append(q, m)

\* Receiver::recv returns the oldest message of the channel
ChanFirstMut(q) == q[Len(q)]
ChanFirst(q) == Head(q)

\* Receiver::recv removes the message it returns
ChanRestMut(q) == q
ChanRest(q) == Tail(q)

\* Mutex::lock blocks until no other thread holds the guard
MutexFreeMut == TRUE
MutexFree == holder = NoHolder

\* the guard returned by lock() belongs to the thread that called it
AcquiredByMut(w) == NoHolder
AcquiredBy(w) == w

\* the guard is a temporary of the let statement: it is dropped when the
\* statement ends, before the match
GuardAfterLetMut(w) == holder
GuardAfterLet(w) == IF holder = w THEN NoHolder ELSE holder

\* Message::Terminate => break: the loop and the thread end
AfterTerminateMut == "lock"
AfterTerminate == "done"

\* a panic of job() is not caught: the thread unwinds and ends
AfterPanicMut == "lock"
AfterPanic == "panicked"

\* the worker body is `loop { ... }`: after a job it takes the lock again
AfterJobMut == "done"
AfterJob == "lock"

\* for _ in &self.workers: one Terminate per worker
TerminateTargetOver == Len(workers) + 1
TerminateTargetMut == Len(workers) - 1
TerminateTarget == Len(workers)

\* for worker in &mut self.workers: the workers are visited front to back
JoinTargetMut == workers[Len(workers) - joinIdx]
JoinTarget == workers[joinIdx + 1]

\* thread.join().unwrap(): join is Err for a thread that panicked
JoinPanicsMut(w) == FALSE
JoinPanics(w) == pc[w] = "panicked"

\* JoinHandle::join returns once the thread has finished
ThreadFinishedMut(w) == pc[w] # "unspawned"
ThreadFinished(w) == pc[w] \in {"done", "panicked"}

LiveWorkers == {w \in WorkerIds : pc[w] \in {"lock", "recv", "got", "exec"}}
IdleWorkers == {w \in WorkerIds : pc[w] \in {"lock", "recv"}}

Init ==
    /\ phase = "unbuilt"
    /\ size = 0
    /\ workers = <<>>
    /\ senderAlive = FALSE
    /\ rxRefs = 0
    /\ queue = <<>>
    /\ holder = NoHolder
    /\ poisoned = FALSE
    /\ pc = [w \in WorkerIds |-> "unspawned"]
    /\ msg = [w \in WorkerIds |-> NoMsg]
    /\ calls = 0
    /\ faulty = {}
    /\ results = [j \in JobIds |-> "none"]
    /\ delivered = [j \in JobIds |-> <<>>]
    /\ termDelivered = [k \in TermIds |-> <<>>]
    /\ invocations = [j \in JobIds |-> <<>>]
    /\ completed = {}
    /\ termSent = 0
    /\ joinIdx = 0
    /\ joined = <<>>

(***************************************************************************)
(* ThreadPool::new                                                         *)
(***************************************************************************)
\* the assertion, then mpsc::channel() and Arc::new(Mutex::new(receiver))
New(n) ==
    /\ phase = "unbuilt"
    /\ size' = n
    /\ IF AssertSize(n)
       THEN /\ phase' = "constructing"
            /\ senderAlive' = TRUE
            /\ rxRefs' = 1
       ELSE /\ phase' = "aborted"
            /\ UNCHANGED <<senderAlive, rxRefs>>
    /\ UNCHANGED <<workers, queue, holder, poisoned, pc, msg, calls, faulty, results,
                   delivered, termDelivered, invocations, completed, termSent,
                   joinIdx, joined>>

\* one iteration of `for id in 0..size`: Worker::new(id, Arc::clone(&receiver))
SpawnWorker ==
    /\ phase = "constructing"
    /\ Len(workers) < size
    /\ NextWorkerId \in WorkerIds
    /\ workers' = Append(workers, Worker(NextWorkerId))
    /\ rxRefs' = rxRefs + 1
    /\ pc' = [pc EXCEPT ![NextWorkerId] = "lock"]
    /\ UNCHANGED <<phase, size, senderAlive, queue, holder, poisoned, msg,
                   calls, faulty, results, delivered, termDelivered, invocations,
                   completed, termSent, joinIdx, joined>>

\* ThreadPool { workers, sender: Some(sender) }; the local Arc goes out of scope
NewReturn ==
    /\ phase = "constructing"
    /\ Len(workers) = size
    /\ phase' = "active"
    /\ rxRefs' = rxRefs - 1
    /\ UNCHANGED <<size, workers, senderAlive, queue, holder, poisoned, pc,
                   msg, calls, faulty, results, delivered, termDelivered, invocations,
                   completed, termSent, joinIdx, joined>>

(***************************************************************************)
(* ThreadPool::execute.  It borrows the pool, so it runs only while the    *)
(* owner has not begun to drop it.                                         *)
(***************************************************************************)
Execute(f) ==
    /\ phase = "active"
    /\ calls < MaxJobs
    /\ calls' = calls + 1
    /\ IF ExecuteResult = "Ok"
       THEN /\ queue' = ChanSend(queue, NewJob(calls + 1, f))
            /\ results' = [results EXCEPT ![calls + 1] = "Ok"]
            /\ faulty' = IF f THEN faulty \cup {calls + 1} ELSE faulty
       ELSE /\ queue' = queue
            /\ results' = [results EXCEPT ![calls + 1] = "Err"]
            /\ faulty' = faulty
    /\ UNCHANGED <<phase, size, workers, senderAlive, rxRefs, holder,
                   poisoned, pc, msg, delivered, termDelivered, invocations,
                   completed, termSent, joinIdx, joined>>

(***************************************************************************)
(* Drop for ThreadPool                                                     *)
(***************************************************************************)
BeginDrop ==
    /\ phase = "active"
    /\ phase' = "notifying"
    /\ UNCHANGED <<size, workers, senderAlive, rxRefs, queue, holder,
                   poisoned, pc, msg, calls, faulty, results, delivered,
                   termDelivered, invocations, completed, termSent, joinIdx,
                   joined>>

\* one iteration of the first loop: send(Message::Terminate).unwrap()
SendTerminate ==
    /\ phase = "notifying"
    /\ termSent < TerminateTarget
    /\ IF SendOk
       THEN /\ queue' = ChanSend(queue, Terminate(termSent + 1))
            /\ termSent' = termSent + 1
            /\ UNCHANGED <<phase, senderAlive>>
       ELSE /\ phase' = "drop_panicked"
            /\ senderAlive' = FALSE
            /\ UNCHANGED <<queue, termSent>>
    /\ UNCHANGED <<size, workers, rxRefs, holder, poisoned, pc, msg, calls, faulty,
                   results, delivered, termDelivered, invocations, completed,
                   joinIdx, joined>>

\* the first loop is over, the second begins
StartJoins ==
    /\ phase = "notifying"
    /\ termSent >= TerminateTarget
    /\ phase' = "joining"
    /\ UNCHANGED <<size, workers, senderAlive, rxRefs, queue, holder,
                   poisoned, pc, msg, calls, faulty, results, delivered,
                   termDelivered, invocations, completed, termSent, joinIdx,
                   joined>>

\* one iteration of the second loop: worker.thread.take(), thread.join().unwrap()
Join ==
    /\ phase = "joining"
    /\ joinIdx < Len(workers)
    /\ LET wk == JoinTarget IN
       IF wk.thread = "Some"
       THEN /\ ThreadFinished(wk.id)
            /\ workers' = [i \in 1..Len(workers) |->
                              IF workers[i].id = wk.id
                              THEN [workers[i] EXCEPT !.thread = "None"]
                              ELSE workers[i]]
            /\ joined' = Append(joined, wk.id)
            /\ IF JoinPanics(wk.id)
               THEN /\ phase' = "drop_panicked"
                    /\ senderAlive' = FALSE
                    /\ joinIdx' = joinIdx
               ELSE /\ joinIdx' = joinIdx + 1
                    /\ UNCHANGED <<phase, senderAlive>>
       ELSE /\ joinIdx' = joinIdx + 1
            /\ UNCHANGED <<workers, joined, phase, senderAlive>>
    /\ UNCHANGED <<size, rxRefs, queue, holder, poisoned, pc, msg, calls, faulty,
                   results, delivered, termDelivered, invocations, completed,
                   termSent>>

\* drop returns; the fields of the pool, the Sender among them, are dropped
DropReturn ==
    /\ phase = "joining"
    /\ joinIdx = Len(workers)
    /\ phase' = "disposed"
    /\ senderAlive' = FALSE
    /\ UNCHANGED <<size, workers, rxRefs, queue, holder, poisoned, pc, msg,
                   calls, faulty, results, delivered, termDelivered, invocations,
                   completed, termSent, joinIdx, joined>>

(***************************************************************************)
(* The worker thread: loop { let message =                                 *)
(*     receiver.lock().unwrap().recv().unwrap(); match message { .. } }    *)
(***************************************************************************)
\* receiver.lock().unwrap()
Lock(w) ==
    /\ pc[w] = "lock"
    /\ MutexFree
    /\ IF poisoned
       THEN /\ pc' = [pc EXCEPT ![w] = "panicked"]
            /\ rxRefs' = rxRefs - 1
            /\ holder' = holder
       ELSE /\ pc' = [pc EXCEPT ![w] = "recv"]
            /\ holder' = AcquiredBy(w)
            /\ rxRefs' = rxRefs
    /\ UNCHANGED <<phase, size, workers, senderAlive, queue, poisoned, msg,
                   calls, faulty, results, delivered, termDelivered, invocations,
                   completed, termSent, joinIdx, joined>>

\* .recv().unwrap(), called with the guard alive: it blocks on an empty channel
\* while a Sender exists and fails once the channel is empty and disconnected
Recv(w) ==
    /\ pc[w] = "recv"
    /\ holder = w
    /\ \/ queue # <<>>
       \/ ~senderAlive
    /\ IF queue # <<>>
       THEN /\ msg' = [msg EXCEPT ![w] = ChanFirst(queue)]
            /\ queue' = ChanRest(queue)
            /\ pc' = [pc EXCEPT ![w] = "got"]
            /\ IF ChanFirst(queue).kind = "NewJob"
               THEN /\ delivered' = [delivered EXCEPT ![ChanFirst(queue).id] = Append(@, w)]
                    /\ termDelivered' = termDelivered
               ELSE /\ termDelivered' = [termDelivered EXCEPT ![ChanFirst(queue).id] = Append(@, w)]
                    /\ delivered' = delivered
            /\ UNCHANGED <<holder, poisoned, rxRefs>>
       ELSE /\ pc' = [pc EXCEPT ![w] = "panicked"]
            /\ poisoned' = TRUE
            /\ holder' = NoHolder
            /\ rxRefs' = rxRefs - 1
            /\ UNCHANGED <<msg, queue, delivered, termDelivered>>
    /\ UNCHANGED <<phase, size, workers, senderAlive, calls, faulty, results,
                   invocations, completed, termSent, joinIdx, joined>>

\* the guard is dropped at the end of the let statement, then `match message`:
\* NewJob(job) => job() begins, Terminate => break and the thread ends
Dispatch(w) ==
    /\ pc[w] = "got"
    /\ holder' = GuardAfterLet(w)
    /\ IF msg[w].kind = "NewJob"
       THEN /\ pc' = [pc EXCEPT ![w] = "exec"]
            /\ invocations' = [invocations EXCEPT ![msg[w].id] = Append(@, w)]
            /\ UNCHANGED <<msg, rxRefs>>
       ELSE /\ pc' = [pc EXCEPT ![w] = AfterTerminate]
            /\ msg' = [msg EXCEPT ![w] = NoMsg]
            /\ rxRefs' = IF AfterTerminate = "done" THEN rxRefs - 1 ELSE rxRefs
            /\ UNCHANGED invocations
    /\ UNCHANGED <<phase, size, workers, senderAlive, queue, poisoned, calls, faulty,
                   results, delivered, termDelivered, completed, termSent,
                   joinIdx, joined>>

\* job() returns and the loop goes round
JobReturn(w) ==
    /\ pc[w] = "exec"
    /\ ~msg[w].faulty
    /\ completed' = completed \cup {msg[w].id}
    /\ pc' = [pc EXCEPT ![w] = AfterJob]
    /\ msg' = [msg EXCEPT ![w] = NoMsg]
    /\ rxRefs' = IF AfterJob = "lock" THEN rxRefs ELSE rxRefs - 1
    /\ UNCHANGED <<phase, size, workers, senderAlive, queue, holder,
                   poisoned, calls, faulty, results, delivered, termDelivered,
                   invocations, termSent, joinIdx, joined>>

\* job() panics: nothing catches it, the thread unwinds and drops its Arc; a
\* guard alive at that point would be dropped by the unwinding and poison the mutex
JobPanic(w) ==
    /\ pc[w] = "exec"
    /\ msg[w].faulty
    /\ pc' = [pc EXCEPT ![w] = AfterPanic]
    /\ msg' = [msg EXCEPT ![w] = NoMsg]
    /\ rxRefs' = IF AfterPanic = "panicked" THEN rxRefs - 1 ELSE rxRefs
    /\ poisoned' = (poisoned \/ holder = w)
    /\ holder' = IF holder = w THEN NoHolder ELSE holder
    /\ UNCHANGED <<phase, size, workers, senderAlive, queue, calls, faulty, results, delivered, termDelivered,
                   invocations, completed, termSent, joinIdx, joined>>

Next ==
    \/ \E n \in 0..MaxSize : New(n)
    \/ SpawnWorker
    \/ NewReturn
    \/ \E f \in BOOLEAN : Execute(f)
    \/ BeginDrop
    \/ SendTerminate
    \/ StartJoins
    \/ Join
    \/ DropReturn
    \/ \E w \in WorkerIds : Lock(w)
    \/ \E w \in WorkerIds : Recv(w)
    \/ \E w \in WorkerIds : Dispatch(w)
    \/ \E w \in WorkerIds : JobReturn(w)
    \/ \E w \in WorkerIds : JobPanic(w)

Spec == Init /\ [][Next]_vars

\* Threads that can take a step are scheduled; the callers of new, execute and
\* drop are not obliged to call.
Fairness ==
    /\ WF_vars(SpawnWorker)
    /\ WF_vars(NewReturn)
    /\ WF_vars(SendTerminate)
    /\ WF_vars(StartJoins)
    /\ WF_vars(Join)
    /\ WF_vars(DropReturn)
    /\ \A w \in WorkerIds :
        /\ WF_vars(Lock(w))
        /\ WF_vars(Recv(w))
        /\ WF_vars(Dispatch(w))
        /\ WF_vars(JobReturn(w))
        /\ WF_vars(JobPanic(w))

FairSpec == Spec /\ Fairness

TypeOK ==
    /\ phase \in {"unbuilt", "aborted", "constructing", "active", "notifying",
                  "joining", "disposed", "drop_panicked"}
    /\ size \in 0..MaxSize
    /\ rxRefs \in 0..(MaxSize + 1)
    /\ holder \in WorkerIds \cup {NoHolder}
    /\ pc \in [WorkerIds -> {"unspawned", "lock", "recv", "got", "exec",
                             "done", "panicked"}]
    /\ calls \in 0..MaxJobs
    /\ termSent \in 0..MaxSize
    /\ joinIdx \in 0..MaxSize

(***************************************************************************)
(* Vocabulary of the properties                                            *)
(***************************************************************************)
PoolWorkers == 0..(size - 1)
Accepted == {j \in JobIds : results[j] = "Ok"}
DisposalBegun == phase \in {"notifying", "joining", "disposed", "drop_panicked"}
AllWorkersFaulted == size > 0 /\ \A w \in PoolWorkers : pc[w] = "panicked"

\* C1: a job that execute accepted while the pool was active is eventually
\* invoked, never more than once and so on one worker only, as long as the
\* workers are scheduled and have not all been lost to faulting jobs.
C1_AcceptedJobInvokedOnce ==
    /\ [](\A j \in JobIds : Len(invocations[j]) <= 1)
    /\ \A j \in JobIds :
          (results[j] = "Ok") ~> (Len(invocations[j]) = 1 \/ AllWorkersFaulted)

C1_Witness ==
    /\ calls >= 2
    /\ \A j \in 1..calls : results[j] = "Ok" /\ Len(invocations[j]) = 1
    /\ ~AllWorkersFaulted

\* C2: every message put on the channel, NewJob or Terminate, is dequeued by
\* at most one worker, two workers never hold the same message, and no job is
\* invoked by a worker that did not dequeue it.
C2_MessageDeliveredOnce ==
    /\ \A j \in JobIds : Len(delivered[j]) <= 1
    /\ \A k \in TermIds : Len(termDelivered[k]) <= 1
    /\ \A w1, w2 \in WorkerIds :
          (w1 # w2 /\ msg[w1] # NoMsg) => msg[w1] # msg[w2]
    /\ \A j \in JobIds :
          /\ Len(invocations[j]) <= Len(delivered[j])
          /\ \A i \in 1..Len(invocations[j]) : invocations[j][i] = delivered[j][i]

C2_Witness ==
    \E j1, j2 \in JobIds :
        /\ j1 # j2
        /\ Len(delivered[j1]) = 1
        /\ Len(delivered[j2]) = 1
        /\ delivered[j1] # delivered[j2]
        /\ \E k \in TermIds : Len(termDelivered[k]) = 1

\* C3: when drop has returned, every worker of the pool has terminated, none
\* is executing a job and no invoked job is still running.
C3_DisposedMeansAllTerminated ==
    phase = "disposed" =>
        /\ \A w \in PoolWorkers : pc[w] = "done" /\ msg[w] = NoMsg
        /\ \A j \in JobIds : Len(invocations[j]) = 1 => j \in completed

C3_Witness ==
    /\ phase = "disposed"
    /\ size >= 2
    /\ completed # {}

\* C4: when drop has returned, every job accepted before disposal began has
\* run to completion, however many were queued; and a worker takes a
\* Terminate message only after every accepted job has been dequeued.
C4_NoQueuedJobDropped ==
    /\ phase = "disposed" =>
          /\ completed = Accepted
          /\ Cardinality(completed) = Cardinality(Accepted)
    /\ (\E k \in TermIds : termDelivered[k] # <<>>) =>
          \A j \in Accepted : delivered[j] # <<>>

C4_Witness ==
    /\ phase = "disposed"
    /\ Cardinality(Accepted) > size
    /\ completed = Accepted

\* C5: once drop has begun on a pool none of whose accepted jobs faults, and
\* the threads are scheduled, drop returns, every worker having taken a
\* Terminate message and exited.
C5_DisposalTerminates ==
    (phase = "notifying" /\ faulty = {}) ~>
        (/\ phase = "disposed"
         /\ \A w \in PoolWorkers :
               /\ pc[w] = "done"
               /\ \E k \in TermIds : termDelivered[k] = <<w>>)

C5_Witness ==
    /\ phase = "disposed"
    /\ faulty = {}
    /\ calls > 0
    /\ \A w \in PoolWorkers : \E k \in TermIds : termDelivered[k] = <<w>>

\* C6: drop sends one Terminate per worker and no more, starts joining only
\* when all of them are sent, and joins the workers in ascending id order,
\* each once; when it returns it has sent N messages and joined N workers.
C6_DisposalOrder ==
    /\ termSent <= Len(workers)
    /\ phase \in {"joining", "disposed"} => termSent = size
    /\ joined # <<>> => termSent = size
    /\ \A i \in 1..Len(joined) : joined[i] = i - 1
    /\ \A i \in 1..Len(workers) :
          (workers[i].thread = "None") <=> (\E k \in 1..Len(joined) : joined[k] = workers[i].id)
    /\ phase = "disposed" => Len(joined) = size

C6_Witness ==
    /\ phase = "disposed"
    /\ size >= 2
    /\ termSent = size
    /\ Len(joined) = size

\* C7: a pool that new(size) returned has exactly size workers with the ids
\* 0..size-1 in that order, all of them idle until the first submission, and
\* keeps exactly these handles through its life and its disposal.
C7_SizeWorkersWithDistinctIds ==
    /\ phase \in {"active", "notifying", "joining", "disposed", "drop_panicked"} =>
          /\ size > 0
          /\ Len(workers) = size
          /\ \A i \in 1..Len(workers) : workers[i].id = i - 1
    /\ (phase = "active" /\ calls = 0) =>
          /\ IdleWorkers = PoolWorkers
          /\ \A i \in 1..Len(workers) : workers[i].thread = "Some"

C7_Witness ==
    /\ phase = "joining"
    /\ size >= 2
    /\ completed # {}
    /\ Len(workers) = size

\* C8: new(0) stops at the assertion: no channel, no Arc, no worker and no
\* thread exists afterwards, and no pool is returned; nothing else aborts.
C8_ZeroSizeAborts ==
    /\ (size = 0 /\ phase # "unbuilt") =>
          /\ phase = "aborted"
          /\ ~senderAlive
          /\ rxRefs = 0
          /\ workers = <<>>
          /\ \A w \in WorkerIds : pc[w] = "unspawned"
    /\ phase = "aborted" => size = 0

C8_Witness == phase = "aborted" /\ size = 0

C10_NoErrorBeforeDisposal ==
    phase = "active" => \A j \in JobIds : results[j] # "Err"

\* C10 amended: an execute call made before disposal returns Ok and enqueues
\* its job at the tail whenever some worker thread is alive, and returns an
\* error, enqueuing nothing, only when every worker has died of a faulting job.
C10_ErrorOnlyWhenNoWorkerLeft ==
    [][\A j \in JobIds :
          (results[j] = "none" /\ results'[j] # "none") =>
              IF LiveWorkers # {}
              THEN /\ results'[j] = "Ok"
                   /\ Len(queue') = Len(queue) + 1
                   /\ queue'[Len(queue')].kind = "NewJob"
                   /\ queue'[Len(queue')].id = j
              ELSE /\ results'[j] = "Err"
                   /\ queue' = queue
                   /\ AllWorkersFaulted]_vars

C10_Witness ==
    /\ phase = "active"
    /\ \E j \in JobIds : results[j] = "Err"
    /\ \E j \in JobIds : results[j] = "Ok"
    /\ AllWorkersFaulted

\* C11: a panic of a job is not caught: the step that ends the faulting job
\* terminates the worker that ran it and no other, the number of live workers
\* drops by one for good, and the mutex, its holder and the channel are left
\* as they were, so the other workers go on dequeuing.
C11_FaultKillsOnlyItsWorker ==
    /\ [][\A w \in WorkerIds :
            (pc[w] = "exec" /\ msg[w].faulty /\ pc'[w] # "exec") =>
                /\ pc'[w] = "panicked"
                /\ LiveWorkers' = LiveWorkers \ {w}
                /\ Cardinality(LiveWorkers') = Cardinality(LiveWorkers) - 1
                /\ \A v \in WorkerIds \ {w} : pc'[v] = pc[v] /\ msg'[v] = msg[v]
                /\ holder # w
                /\ holder' = holder
                /\ ~poisoned'
                /\ queue' = queue]_vars
    /\ [][\A w \in WorkerIds : pc[w] = "panicked" => pc'[w] = "panicked"]_vars

C11_Witness ==
    \E w1, w2 \in WorkerIds :
        /\ w1 # w2
        /\ pc[w1] = "panicked"
        /\ \E j \in faulty : invocations[j] = <<w1>>
        /\ pc[w2] = "exec"
        /\ \E j \in JobIds : invocations[j] = <<w2>> /\ msg[w2].id = j
        /\ ~poisoned

\* C12: the jobs of successive execute calls sit in the channel in call order
\* and leave it in call order: a job is dequeued only after every job
\* accepted earlier; a pool of one worker starts a job only after every job
\* accepted earlier has returned.
C12_SubmissionOrderKept ==
    /\ \A a, b \in 1..Len(queue) :
          (a < b /\ queue[a].kind = "NewJob" /\ queue[b].kind = "NewJob") =>
              queue[a].id < queue[b].id
    /\ \A a \in 1..Len(queue) : \A j \in JobIds :
          (queue[a].kind = "NewJob" /\ delivered[j] # <<>>) => j < queue[a].id
    /\ \A i, j \in Accepted :
          (i < j /\ delivered[j] # <<>>) => delivered[i] # <<>>
    /\ size = 1 =>
          \A i, j \in Accepted :
              (i < j /\ invocations[j] # <<>>) => i \in completed

C12_Witness ==
    /\ size = 1
    /\ Cardinality(completed) >= 2
    /\ \E j \in Accepted : j \notin completed /\ \A i \in completed : i < j

\* C13 as stated: no worker holds the mutex of the receiving end while it is
\* parked in the blocking receive on an empty channel.
C13_IdleWaiterHoldsNoLock ==
    \A w \in WorkerIds : ~(pc[w] = "recv" /\ queue = <<>> /\ holder = w)

\* C13 amended: a worker parked in the blocking receive is the holder of the
\* mutex, on an empty channel too; the mutex is held only by a worker that is
\* in recv or has just obtained its message, and every other idle worker
\* waits at lock().
C13_RecvWaiterHoldsLock ==
    /\ \A w \in WorkerIds : pc[w] = "recv" => holder = w
    /\ \A w \in WorkerIds : holder = w => pc[w] \in {"recv", "got"}
    /\ \A w, v \in WorkerIds :
          (pc[w] = "recv" /\ v # w /\ v \in IdleWorkers) => pc[v] = "lock"

C13_Witness ==
    \E w, v \in WorkerIds :
        /\ w # v
        /\ pc[w] = "recv"
        /\ queue = <<>>
        /\ holder = w
        /\ pc[v] = "lock"
        /\ phase = "active"

\* C14: the guard is gone when the job is invoked: a worker that executes a
\* job, or has left the loop, never holds the mutex, so a running job leaves
\* the mutex to the workers that dequeue and two jobs can run at once.
C14_NoLockWhileExecuting ==
    /\ \A w \in WorkerIds : pc[w] = "exec" => holder # w
    /\ \A w \in WorkerIds : pc[w] \in {"done", "panicked"} => holder # w
    /\ (\E w \in WorkerIds : pc[w] = "exec") =>
          (holder = NoHolder \/ pc[holder] \in {"recv", "got"})

C14_Witness ==
    \E w, v \in WorkerIds :
        /\ w # v
        /\ pc[w] = "exec"
        /\ pc[v] = "exec"
        /\ msg[w].id # msg[v].id
        /\ holder = NoHolder

\* C15: the dequeue is mutually exclusive: at most one worker is past lock()
\* and not yet past the end of the let statement, that is inside recv or
\* holding the message it returned, and that worker is the holder of the mutex.
C15_OneWorkerInReceive ==
    /\ Cardinality({w \in WorkerIds : pc[w] \in {"recv", "got"}}) <= 1
    /\ \A w \in WorkerIds : pc[w] \in {"recv", "got"} => holder = w

C15_Witness ==
    \E w, v \in WorkerIds :
        /\ w # v
        /\ pc[w] = "got"
        /\ holder = w
        /\ pc[v] = "lock"
        /\ queue # <<>>

\* The steps of the worker state machine: Idle is lock/recv/got, Executing is
\* exec, Terminated is done; a faulting job leads from exec to panicked.
WorkerSteps ==
    {<<"unspawned", "lock">>, <<"lock", "recv">>, <<"recv", "got">>,
     <<"got", "exec">>, <<"got", "done">>, <<"exec", "lock">>,
     <<"exec", "panicked">>}

DequeuesBy(d, t, w) ==
    Cardinality({x \in JobIds \X (1..(MaxJobs + MaxSize)) :
                    x[2] <= Len(d[x[1]]) /\ d[x[1]][x[2]] = w})
    + Cardinality({x \in TermIds \X (1..(MaxJobs + MaxSize)) :
                    x[2] <= Len(t[x[1]]) /\ t[x[1]][x[2]] = w})

\* C16: a worker moves only along Idle -> Executing -> Idle ... -> Terminated;
\* a worker holding a Terminate message can only terminate, and a terminated
\* worker stays terminated: it never dequeues, never invokes a job and never
\* holds the mutex again.
C16_TerminatedIsAbsorbing ==
    [][\A w \in WorkerIds :
          /\ pc'[w] # pc[w] => <<pc[w], pc'[w]>> \in WorkerSteps
          /\ (pc[w] = "got" /\ msg[w].kind = "Terminate" /\ pc'[w] # pc[w]) =>
                pc'[w] = "done"
          /\ (pc[w] = "got" /\ msg[w].kind = "NewJob" /\ pc'[w] # pc[w]) =>
                pc'[w] = "exec"
          /\ pc[w] = "done" =>
                /\ pc'[w] = "done"
                /\ holder' # w
                /\ DequeuesBy(delivered', termDelivered', w)
                      = DequeuesBy(delivered, termDelivered, w)
                /\ \A j \in JobIds :
                      Len(invocations'[j]) > Len(invocations[j]) =>
                          invocations'[j][Len(invocations'[j])] # w]_vars

C16_Witness ==
    \E w, v \in WorkerIds :
        /\ pc[w] = "done"
        /\ \E k \in TermIds : termDelivered[k] = <<w>>
        /\ \E j \in JobIds : invocations[j] = <<w>> /\ j \in completed
        /\ pc[v] = "exec"

\* C17: a failed join is final: the join of a worker that died of a faulting
\* job makes drop panic at that worker, after which nothing more is joined
\* and the workers of higher id keep their handles; drop never returns
\* normally from a pool one of whose workers has died.
C17_JoinFailureUnrecoverable ==
    /\ [](phase = "disposed" => \A w \in PoolWorkers : pc[w] # "panicked")
    /\ []((phase = "drop_panicked" /\ joined # <<>>) =>
            /\ pc[joined[Len(joined)]] = "panicked"
            /\ \A i \in 1..(Len(joined) - 1) : pc[joined[i]] = "done"
            /\ \A i \in 1..Len(workers) :
                  workers[i].id > joined[Len(joined)] => workers[i].thread = "Some")
    /\ [][(Len(joined') > Len(joined) /\ pc[joined'[Len(joined')]] = "panicked") =>
            phase' = "drop_panicked"]_vars
    /\ [][phase = "drop_panicked" =>
            (phase' = "drop_panicked" /\ joined' = joined /\ workers' = workers)]_vars

C17_Witness ==
    /\ phase = "drop_panicked"
    /\ joined # <<>>
    /\ Len(joined) < size
    /\ pc[joined[Len(joined)]] = "panicked"
    /\ \E i \in 1..Len(workers) :
          workers[i].id > joined[Len(joined)] /\ workers[i].thread = "Some"

TermsInQueue == Cardinality({i \in 1..Len(queue) : queue[i].kind = "Terminate"})
TermsConsumed == Cardinality({k \in TermIds : termDelivered[k] # <<>>})
TermsTakenBy(w) ==
    {k \in TermIds : \E i \in 1..Len(termDelivered[k]) : termDelivered[k][i] = w}

\* C18: no worker takes two Terminate messages and drop sends at most N; when
\* no job faults, the Terminate messages still in the channel and those taken
\* by workers add up to the number sent, and when drop returns the channel is
\* empty and every worker has taken exactly one Terminate.
C18_TerminateAccounting ==
    /\ \A w \in WorkerIds : Cardinality(TermsTakenBy(w)) <= 1
    /\ \A w \in WorkerIds :
          (Cardinality(TermsTakenBy(w)) = 1) <=>
              (pc[w] = "done" \/ (pc[w] = "got" /\ msg[w].kind = "Terminate"))
    /\ termSent <= size
    /\ faulty = {} => TermsInQueue + TermsConsumed = termSent
    /\ phase = "disposed" =>
          /\ queue = <<>>
          /\ TermsConsumed = size
          /\ \A w \in PoolWorkers : Cardinality(TermsTakenBy(w)) = 1

C18_Witness ==
    /\ phase \in {"notifying", "joining"}
    /\ faulty = {}
    /\ calls > 0
    /\ TermsInQueue >= 1
    /\ TermsConsumed >= 1

NeedTerminate ==
    {w \in WorkerIds : pc[w] \in {"lock", "recv", "exec"}
                       \/ (pc[w] = "got" /\ msg[w].kind = "NewJob")}

\* C19 as stated: whenever a worker is in the blocking receive the sending
\* half of the pool still exists.
C19_SenderAliveWhileReceiving ==
    \A w \in WorkerIds : pc[w] = "recv" => senderAlive

\* C19 amended: the sending half lives from construction until drop returns
\* or panics; a worker in the blocking receive after that still finds a
\* buffered Terminate, one being left for every worker that needs one, so no
\* recv fails, the mutex is never poisoned, and a worker ends only by taking
\* a Terminate or by the panic of a job it invoked.
C19_NoWorkerSeesDisconnect ==
    /\ senderAlive <=> phase \in {"constructing", "active", "notifying", "joining"}
    /\ \A w \in WorkerIds : pc[w] = "recv" => (senderAlive \/ queue # <<>>)
    /\ (~senderAlive /\ phase \in {"disposed", "drop_panicked"}) =>
          TermsInQueue >= Cardinality(NeedTerminate)
    /\ ~poisoned
    /\ \A w \in WorkerIds :
          /\ pc[w] = "panicked" =>
                \E j \in faulty : invocations[j] = <<w>> /\ j \notin completed
          /\ pc[w] = "done" => Cardinality(TermsTakenBy(w)) = 1

C19_Witness ==
    /\ phase = "drop_panicked"
    /\ ~senderAlive
    /\ \E w \in WorkerIds : pc[w] = "recv" /\ queue # <<>>
    /\ \E w \in WorkerIds : pc[w] = "panicked"
====
